---- MODULE Spec2Model ----
(***************************************************************************)
(* Model of generate_feed.py: the incremental feed synchroniser.           *)
(*                                                                         *)
(* Strings are sequences of symbols.  A symbol is either one character     *)
(* that the code treats specially ("&", "<", ">", the double quote, the    *)
(* newline), or an opaque chunk of text that holds none of them (a word,   *)
(* an identifier, a piece of fixed markup written by the code).  The two   *)
(* regular expressions of the code are evaluated on these sequences.       *)
(* Python's None and an optional value are a sequence of length 0 and 1.   *)
(***************************************************************************)
EXTENDS Integers, Sequences, FiniteSets, TLC

(***************************************************************************)
(* Bounds of the model.  MAX_ITEMS is 500 and max_results is 20 in the     *)
(* source; the model keeps their roles and scales their values.            *)
(***************************************************************************)
MAX_ITEMS == 3

max_results == 2

MaxId == 4

MaxPieces == 3

(***************************************************************************)
(* Python values                                                           *)
(***************************************************************************)
None == <<>>

Some(v) == <<v>>

EmptyDict == <<>>

get(d, k, default) == IF k \in DOMAIN d THEN d[k] ELSE default

Min(S) == CHOOSE m \in S : \A n \in S : m <= n

Max(S) == CHOOSE m \in S : \A n \in S : n <= m

\* "sep".join(lines)
RECURSIVE join(_, _)
join(lines, sep) ==
    IF lines = <<>> THEN <<>>
    ELSE IF Len(lines) = 1 THEN Head(lines)
    ELSE Head(lines) \o <<sep>> \o join(Tail(lines), sep)

\* text.replace(old, new), old one symbol, new a string
RECURSIVE replace(_, _, _)
replace(text, old, new) ==
    IF text = <<>> THEN <<>>
    ELSE (IF Head(text) = old THEN new ELSE <<Head(text)>>)
         \o replace(Tail(text), old, new)

\* A tweet identifier is a string of digits, one symbol; IdOf gives the string of
\* a number and IdNum the number of a string (identifiers are compared as numbers).
IdOf(n) == <<ToString(n)>>

IdNum(s) == CHOOSE n \in 0..(MaxId + 1) : <<ToString(n)>> = s

(***************************************************************************)
(* The files                                                               *)
(***************************************************************************)
NoFile == [exists |-> FALSE, text |-> <<>>]

File(text) == [exists |-> TRUE, text |-> text]

\* read_last_seen_id (the file holds what write_last_seen_id wrote: strip() finds
\* nothing to strip)
read_last_seen_id(file) ==
    IF file.exists
    THEN (IF file.text # <<>> THEN Some(file.text) ELSE None)
    ELSE None

\* write_last_seen_id: the file after the write
write_last_seen_id(tweet_id) == File(tweet_id)

(***************************************************************************)
(* Content renderer                                                        *)
(***************************************************************************)
\* as escape_xml, with "&" replaced last
escape_xml_AmpLast(text) ==
    replace(replace(replace(replace(text,
        "<", <<"&", "l", "t", ";">>),
        ">", <<"&", "g", "t", ";">>),
        "\"", <<"&", "q", "u", "o", "t", ";">>),
        "&", <<"&", "a", "m", "p", ";">>)

escape_xml(text) ==
    replace(replace(replace(replace(text,
        "&", <<"&", "a", "m", "p", ";">>),
        "<", <<"&", "l", "t", ";">>),
        ">", <<"&", "g", "t", ";">>),
        "\"", <<"&", "q", "u", "o", "t", ";">>)

RefLabel(ref_type) ==
    IF ref_type = "replied_to" THEN "Replying to"
    ELSE IF ref_type = "quoted" THEN "Quoting"
    ELSE IF ref_type = "retweeted" THEN "Retweeted"
    ELSE "Referenced"

\* one pass of the loop over tweet["referenced_tweets"]
RefPart(ref, ref_tweets, users) ==
    LET ref_type == get(ref, "type", "")
        ref_id == ref.id
    IN  IF ref_id \in DOMAIN ref_tweets
        THEN LET rt == ref_tweets[ref_id]
                 rt_author_id == get(rt, "author_id", "")
                 rt_user == get(users, rt_author_id, EmptyDict)
                 rt_username == get(rt_user, "username", <<"unknown">>)
                 rt_name == get(rt_user, "name", rt_username)
                 rt_text == replace(escape_xml(get(rt, "text", <<>>)), "\n", <<"<br>">>)
                 rt_url == <<"https://twitter.com/">> \o rt_username
                           \o <<"/status/">> \o ref_id
             IN  <<"<p style=\"color:#666; font-size:0.9em;\">", RefLabel(ref_type),
                   ":</p><blockquote style=\"border-left:3px solid #ccc; padding-left:12px; margin-left:0;\"><p><strong>">>
                 \o escape_xml(rt_name)
                 \o <<"</strong> <a href=\"">> \o rt_url
                 \o <<"\" style=\"color:#1da1f2;\">@">> \o escape_xml(rt_username)
                 \o <<"</a></p><p>">> \o rt_text \o <<"</p></blockquote>">>
        ELSE <<>>

RECURSIVE RefParts(_, _, _)
RefParts(refs, ref_tweets, users) ==
    IF refs = <<>> THEN <<>>
    ELSE RefPart(Head(refs), ref_tweets, users) \o RefParts(Tail(refs), ref_tweets, users)

build_description_html(tweet, username, name, tweet_id, created_at_str, media_urls, ref_tweets, users) ==
    LET note == get(tweet, "note_tweet", EmptyDict)
        tweet_text == IF note # EmptyDict THEN get(note, "text", tweet.text) ELSE tweet.text
        html_text == replace(escape_xml(tweet_text), "\n", <<"<br>">>)
        tweet_url == <<"https://twitter.com/">> \o username \o <<"/status/">> \o tweet_id
    IN  <<"<p>">> \o html_text \o <<"</p>">>
        \o <<"<blockquote class=\"twitter-tweet\" data-width=\"550\"><p lang=\"en\" dir=\"ltr\">">>
        \o html_text \o <<"</p>&mdash; ">> \o escape_xml(name) \o <<" (@">>
        \o escape_xml(username) \o <<") <a href=\"">> \o tweet_url \o <<"\">">>
        \o created_at_str
        \o <<"</a></blockquote><script async src=\"https://platform.twitter.com/widgets.js\" charset=\"utf-8\"></script>">>
        \o RefParts(get(tweet, "referenced_tweets", <<>>), ref_tweets, users)

\* The dicts of build_items_xml are filled by loops over lists: a later element
\* of the list overwrites an earlier one with the same key.
LastAt(list, kept, k, field) == list[Max({i \in kept : list[i][field] = k})]

Included(tweets_data, what) ==
    IF "includes" \in DOMAIN tweets_data /\ what \in DOMAIN tweets_data.includes
    THEN tweets_data.includes[what]
    ELSE <<>>

UsersOf(tweets_data) ==
    LET list == Included(tweets_data, "users")
        kept == 1..Len(list)
    IN  [k \in {list[i].id : i \in kept} |->
            LET u == LastAt(list, kept, k, "id")
            IN  [username |-> u.username, name |-> u.name]]

\* m.get("url") or m.get("preview_image_url")
MediaUrl(m) ==
    IF get(m, "url", <<>>) # <<>> THEN m.url ELSE get(m, "preview_image_url", <<>>)

MediaOf(tweets_data) ==
    LET list == Included(tweets_data, "media")
        kept == {i \in 1..Len(list) : MediaUrl(list[i]) # <<>>}
    IN  [k \in {list[i].media_key : i \in kept} |->
            LET m == LastAt(list, kept, k, "media_key")
            IN  [url |-> MediaUrl(m), type |-> get(m, "type", "photo")]]

RefTweetsOf(tweets_data) ==
    LET list == Included(tweets_data, "tweets")
        kept == 1..Len(list)
    IN  [k \in {list[i].id : i \in kept} |-> LastAt(list, kept, k, "id")]

ITEM_OPEN == "    <item>"

ITEM_CLOSE == "    </item>"

GUID_OPEN == "<guid>"

GUID_CLOSE == "</guid>"

\* the lines of the media declarations of one tweet
RECURSIVE MediaLines(_, _)
MediaLines(media_keys, media) ==
    IF media_keys = <<>> THEN <<>>
    ELSE (IF Head(media_keys) \in DOMAIN media
          THEN LET m == media[Head(media_keys)]
                   medium == IF m.type = "video" THEN "video" ELSE "image"
               IN  << <<"      <media:content medium=\"", medium, "\" url=\"">>
                      \o escape_xml(m.url) \o <<"\" />">> >>
          ELSE <<>>)
         \o MediaLines(Tail(media_keys), media)

RECURSIVE MediaUrls(_, _)
MediaUrls(media_keys, media) ==
    IF media_keys = <<>> THEN <<>>
    ELSE (IF Head(media_keys) \in DOMAIN media
          THEN <<media[Head(media_keys)].url>> ELSE <<>>)
         \o MediaUrls(Tail(media_keys), media)

\* the body of the loop of build_items_xml: the <item> of one tweet
ItemXml(tweet, users, media, ref_tweets) ==
    LET author_id == get(tweet, "author_id", "")
        user == get(users, author_id, EmptyDict)
        username == get(user, "username", <<"unknown">>)
        name == get(user, "name", username)
        tweet_url == <<"https://x.com/">> \o username \o <<"/status/">> \o tweet.id
        has_date == "created_at" \in DOMAIN tweet
        pub_date == IF has_date
                    THEN <<"%a, %d %b %Y %H:%M:%S +0000", tweet.created_at>> ELSE <<>>
        created_at_display == IF has_date THEN <<"%B %d, %Y", tweet.created_at>> ELSE <<>>
        media_keys == get(get(tweet, "attachments", EmptyDict), "media_keys", <<>>)
        media_urls == MediaUrls(media_keys, media)
        description_html == build_description_html(tweet, username, name, tweet.id,
                                created_at_display, media_urls, ref_tweets, users)
        lines ==
            << <<ITEM_OPEN>>,
               <<"      <title><![CDATA[">> \o name \o <<" (@">> \o username
                   \o <<")]]></title>">>,
               <<"      <description><![CDATA[">> \o description_html
                   \o <<"]]></description>">>,
               <<"      <content:encoded><![CDATA[">> \o description_html
                   \o <<"]]></content:encoded>">>,
               <<"      <link>">> \o tweet_url \o <<"</link>">>,
               <<"      ", GUID_OPEN>> \o tweet.id \o <<GUID_CLOSE>> >>
            \o (IF pub_date # <<>>
                THEN << <<"      <pubDate>">> \o pub_date \o <<"</pubDate>">> >>
                ELSE <<>>)
            \o MediaLines(media_keys, media)
            \o << <<ITEM_CLOSE>> >>
    IN  join(lines, "\n")

\* as build_items_xml, with the tweets of an unknown author skipped
build_items_xml_SkipsUnknown(tweets_data) ==
    LET users == UsersOf(tweets_data)
        media == MediaOf(tweets_data)
        ref_tweets == RefTweetsOf(tweets_data)
        tweets == SelectSeq(get(tweets_data, "data", <<>>),
                            LAMBDA t : get(t, "author_id", "") \in DOMAIN users)
    IN  [i \in 1..Len(tweets) |-> ItemXml(tweets[i], users, media, ref_tweets)]

build_items_xml(tweets_data) ==
    LET users == UsersOf(tweets_data)
        media == MediaOf(tweets_data)
        ref_tweets == RefTweetsOf(tweets_data)
        tweets == get(tweets_data, "data", <<>>)
    IN  [i \in 1..Len(tweets) |-> ItemXml(tweets[i], users, media, ref_tweets)]

(***************************************************************************)
(* Feed store and feed writer                                              *)
(***************************************************************************)
\* re.finditer(r"(    <item>.*?    </item>)", content, re.DOTALL) from position
\* `from`: the leftmost opening that a closing follows, up to the first closing
\* after it, then on from there
RECURSIVE ItemMatches(_, _)
ItemMatches(content, from) ==
    LET closes == {e \in from..Len(content) : content[e] = ITEM_CLOSE}
        opens == IF closes = {} THEN {}
                 ELSE {b \in from..(Max(closes) - 1) : content[b] = ITEM_OPEN}
    IN  IF opens = {} THEN <<>>
        ELSE LET b == Min(opens)
                 e == Min({c \in closes : c > b})
             IN  <<SubSeq(content, b, e)>> \o ItemMatches(content, e + 1)

\* re.search(r"<guid>(.*?)</guid>", item_xml): the group of the leftmost match, or
\* None; "." matches no newline
GuidSearch(item_xml) ==
    LET n == Len(item_xml)
        Ends(b) == {e \in (b + 1)..n : /\ item_xml[e] = GUID_CLOSE
                                       /\ \A k \in (b + 1)..(e - 1) : item_xml[k] # "\n"}
        starts == {b \in 1..n : item_xml[b] = GUID_OPEN /\ Ends(b) # {}}
    IN  IF starts = {} THEN None
        ELSE LET b == Min(starts)
             IN  Some(SubSeq(item_xml, b + 1, Min(Ends(b)) - 1))

\* the list of (guid, item_xml) pairs
parse_existing_items(file) ==
    IF ~file.exists THEN <<>>
    ELSE LET found == ItemMatches(file.text, 1)
         IN  [i \in 1..Len(found) |-> [guid |-> GuidSearch(found[i]), xml |-> found[i]]]

\* write_feed: the file after the write, `now` the build time
write_feed(items_xml, now) ==
    LET lines == << <<"<?xml version=\"1.0\" encoding=\"utf-8\"?>">>,
                    <<"<rss version=\"2.0\" xmlns:media=\"http://search.yahoo.com/mrss/\" xmlns:content=\"http://purl.org/rss/1.0/modules/content/\">">>,
                    <<"  <channel>">>,
                    <<"    <title>Twitter Feed</title>">>,
                    <<"    <description>Tweets from followed accounts</description>">>,
                    <<"    <link>https://x.com</link>">>,
                    <<"    <lastBuildDate>", now, "</lastBuildDate>">> >>
                 \o items_xml
                 \o << <<"  </channel>">>, <<"</rss>">> >>
    IN  File(join(lines, "\n"))

(***************************************************************************)
(* Merge engine: main, lines 312-326                                       *)
(***************************************************************************)
\* as NewGuids, the loop over the new items left after its first pass
NewGuidsFirstOnly(new_items) ==
    IF new_items = <<>> \/ GuidSearch(new_items[1]) = None THEN {}
    ELSE {GuidSearch(new_items[1])[1]}

\* the set of guids found in the new items
NewGuids(new_items) ==
    {GuidSearch(new_items[i])[1] :
        i \in {j \in 1..Len(new_items) : GuidSearch(new_items[j]) # None}}

\* as FilterExisting, without the condition
FilterExistingKeepsAll(existing, new_guids) ==
    [i \in 1..Len(existing) |-> existing[i].xml]

\* as FilterExisting, the stored items not carried over
FilterExistingKeepsNone(existing, new_guids) == <<>>

\* as FilterExisting, with the condition `guid and guid not in new_guids`
FilterExistingDropsUnparsed(existing, new_guids) ==
    LET kept == SelectSeq(existing, LAMBDA p : p.guid # None /\ p.guid[1] \notin new_guids)
    IN  [i \in 1..Len(kept) |-> kept[i].xml]

\* [xml for guid, xml in existing if guid not in new_guids]
FilterExisting(existing, new_guids) ==
    LET kept == SelectSeq(existing, LAMBDA p : p.guid = None \/ p.guid[1] \notin new_guids)
    IN  [i \in 1..Len(kept) |-> kept[i].xml]

\* as MergeItems, the slice taken from the end: [-MAX_ITEMS:]
MergeItemsKeepsTail(new_items, existing_items) ==
    LET all == new_items \o existing_items
    IN  SubSeq(all, IF Len(all) > MAX_ITEMS THEN Len(all) - MAX_ITEMS + 1 ELSE 1, Len(all))

\* as MergeItems, the existing items first
MergeItemsExistingFirst(new_items, existing_items) ==
    SubSeq(existing_items \o new_items, 1,
           IF Len(new_items) + Len(existing_items) < MAX_ITEMS
           THEN Len(new_items) + Len(existing_items) ELSE MAX_ITEMS)

\* as MergeItems, the slice one short: [:MAX_ITEMS - 1]
MergeItemsOneShort(new_items, existing_items) ==
    SubSeq(new_items \o existing_items, 1,
           IF Len(new_items) + Len(existing_items) < MAX_ITEMS - 1
           THEN Len(new_items) + Len(existing_items) ELSE MAX_ITEMS - 1)

\* (new_items + existing_items)[:MAX_ITEMS]
MergeItems(new_items, existing_items) ==
    SubSeq(new_items \o existing_items, 1,
           IF Len(new_items) + Len(existing_items) < MAX_ITEMS
           THEN Len(new_items) + Len(existing_items) ELSE MAX_ITEMS)

(***************************************************************************)
(* State                                                                   *)
(***************************************************************************)
VARIABLES
    last_seen_file,  \* last_seen_id.txt
    feed_file,       \* feed.xml
    posted,          \* the search service: tweets 1..posted were published
    deleted,         \* the search service: the published tweets since deleted
    pc,              \* where main is, or how its last run ended
    exit_code,       \* the exit status of the last run (-1: none yet or running)
    since_id,        \* locals of main, as the last run left them
    data,
    new_items,
    existing,
    existing_items,
    all_items,
    io_log,          \* the calls of the current run that touch files or network
    files_before,    \* the two files as they were when the current run started
    fetched          \* the numbers of the tweets that some search has returned

files == <<last_seen_file, feed_file>>

service == <<posted, deleted>>

locals == <<since_id, data, new_items, existing, existing_items, all_items>>

vars == <<last_seen_file, feed_file, posted, deleted, pc, exit_code, since_id, data, new_items, existing, existing_items, all_items, io_log, files_before, fetched>>

\* main is not running: before the first run, or after a run has ended
Ended == {"not_started", "exit_config", "exit_rate_limited", "exit_api_error", "exit_uncaught", "return_no_tweets", "return_updated", "exit_update_failed"}

NOW == "<now>"

(***************************************************************************)
(* The search service (X API v2 recent search), as search_recent_tweets    *)
(* uses it: the matching tweets with an id greater than since_id, newest   *)
(* first, at most max_results of them.                                     *)
(***************************************************************************)
TweetOf(n) == [id |-> IdOf(n), author_id |-> "u1", text |-> <<"hello">>, created_at |-> "2024-01-01T00:00:00Z"]

UserList == << [id |-> "u1", username |-> <<"alice">>, name |-> <<"Alice">>] >>

\* the numbers of a set, largest first
RECURSIVE Descending(_)
Descending(S) == IF S = {} THEN <<>> ELSE <<Max(S)>> \o Descending(S \ {Max(S)})

\* the JSON the service answers: no "data" key when nothing matches
Response(ids) ==
    IF ids = <<>> THEN [meta |-> [result_count |-> 0]]
    ELSE [data |-> [i \in 1..Len(ids) |-> TweetOf(ids[i])],
          includes |-> [users |-> UserList],
          meta |-> [result_count |-> Len(ids)]]

search_recent_tweets(since) ==
    LET matching == {n \in (1..posted) \ deleted : since = None \/ n > IdNum(since[1])}
        all == Descending(matching)
    IN  Response(SubSeq(all, 1, IF Len(all) < max_results THEN Len(all) ELSE max_results))

Post ==
    /\ posted < MaxId
    /\ posted' = posted + 1
    /\ UNCHANGED <<files, deleted, pc, exit_code, locals, io_log, files_before, fetched>>

Delete(n) ==
    /\ n \in (1..posted) \ deleted
    /\ deleted' = deleted \cup {n}
    /\ UNCHANGED <<files, posted, pc, exit_code, locals, io_log, files_before, fetched>>

(***************************************************************************)
(* main                                                                    *)
(***************************************************************************)
NoLocals ==
    /\ since_id' = None
    /\ data' = EmptyDict
    /\ new_items' = <<>>
    /\ existing' = <<>>
    /\ existing_items' = <<>>
    /\ all_items' = <<>>

\* main starts: get_config, with the credential and the account list as the
\* environment and the .env file give them (an empty string when unset)
GetConfig(bearer, accounts) ==
    /\ pc \in Ended
    /\ NoLocals
    /\ io_log' = <<>>
    /\ files_before' = files
    /\ IF bearer = <<>> \/ accounts = <<>>
       THEN pc' = "exit_config" /\ exit_code' = 1
       ELSE pc' = "read_last_seen_id" /\ exit_code' = -1
    /\ UNCHANGED <<files, service, fetched>>

ReadLastSeenId ==
    /\ pc = "read_last_seen_id"
    /\ since_id' = read_last_seen_id(last_seen_file)
    /\ io_log' = Append(io_log, "read_last_seen_id")
    /\ pc' = "search_recent_tweets"
    /\ UNCHANGED <<files, service, exit_code, data, new_items, existing, existing_items, all_items, files_before, fetched>>

\* the numbers of the tweets of a response
FetchedIds(response) ==
    LET tweets == get(response, "data", <<>>)
    IN  {IdNum(tweets[k].id) : k \in 1..Len(tweets)}

\* the request succeeds
SearchOk ==
    /\ pc = "search_recent_tweets"
    /\ data' = search_recent_tweets(since_id)
    /\ fetched' = fetched \cup FetchedIds(data')
    /\ io_log' = Append(io_log, "search_recent_tweets")
    /\ pc' = "check_tweets"
    /\ UNCHANGED <<files, service, exit_code, since_id, new_items, existing, existing_items, all_items, files_before>>

\* as SearchHTTPError, with every status taken for a failure
SearchHTTPErrorAlwaysFails(code) ==
    /\ pc = "search_recent_tweets"
    /\ io_log' = Append(io_log, "search_recent_tweets")
    /\ pc' = (IF code = 429 THEN "exit_rate_limited" ELSE "exit_api_error")
    /\ exit_code' = 1
    /\ UNCHANGED <<files, service, locals, files_before, fetched>>

\* the request raises urllib.error.HTTPError with status `code`
SearchHTTPError(code) ==
    /\ pc = "search_recent_tweets"
    /\ io_log' = Append(io_log, "search_recent_tweets")
    /\ IF code = 429
       THEN pc' = "exit_rate_limited" /\ exit_code' = 0
       ELSE pc' = "exit_api_error" /\ exit_code' = 1
    /\ UNCHANGED <<files, service, locals, files_before, fetched>>

\* the request raises something main does not catch (urllib.error.URLError, a
\* timeout, malformed JSON): the interpreter ends with status 1
SearchUncaught ==
    /\ pc = "search_recent_tweets"
    /\ io_log' = Append(io_log, "search_recent_tweets")
    /\ pc' = "exit_uncaught"
    /\ exit_code' = 1
    /\ UNCHANGED <<files, service, locals, files_before, fetched>>

\* as CheckTweets, with the feed written again before the return
CheckTweetsRewritesFeed ==
    /\ pc = "check_tweets"
    /\ IF get(data, "data", <<>>) = <<>>
       THEN /\ pc' = "return_no_tweets"
            /\ exit_code' = 0
            /\ feed_file' = write_feed(<<>>, NOW)
            /\ io_log' = Append(io_log, "write_feed")
       ELSE /\ pc' = "write_last_seen_id"
            /\ exit_code' = exit_code
            /\ UNCHANGED <<feed_file, io_log>>
    /\ UNCHANGED <<last_seen_file, service, locals, files_before, fetched>>

\* tweets = data.get("data", []); if not tweets: return
CheckTweets ==
    /\ pc = "check_tweets"
    /\ IF get(data, "data", <<>>) = <<>>
       THEN pc' = "return_no_tweets" /\ exit_code' = 0
       ELSE pc' = "write_last_seen_id" /\ exit_code' = exit_code
    /\ UNCHANGED <<files, service, locals, io_log, files_before, fetched>>

\* as WriteLastSeenId, with the last tweet of the response: tweets[-1]["id"]
WriteLastSeenIdOfLast ==
    /\ pc = "write_last_seen_id"
    /\ last_seen_file' = write_last_seen_id(data.data[Len(data.data)].id)
    /\ io_log' = Append(io_log, "write_last_seen_id")
    /\ pc' = "update_feed"
    /\ UNCHANGED <<feed_file, service, exit_code, locals, files_before, fetched>>

\* newest_id = tweets[0]["id"]; write_last_seen_id(newest_id)
WriteLastSeenId ==
    /\ pc = "write_last_seen_id"
    /\ last_seen_file' = write_last_seen_id(data.data[1].id)
    /\ io_log' = Append(io_log, "write_last_seen_id")
    /\ pc' = "update_feed"
    /\ UNCHANGED <<feed_file, service, exit_code, locals, files_before, fetched>>

\* build the new items, load the existing ones, deduplicate, merge, write the feed
UpdateFeed ==
    /\ pc = "update_feed"
    /\ new_items' = build_items_xml(data)
    /\ existing' = parse_existing_items(feed_file)
    /\ existing_items' = FilterExisting(existing', NewGuids(new_items'))
    /\ all_items' = MergeItems(new_items', existing_items')
    /\ feed_file' = write_feed(all_items', NOW)
    /\ io_log' = io_log \o <<"build_items_xml", "parse_existing_items", "write_feed">>
    /\ pc' = "return_updated"
    /\ exit_code' = 0
    /\ UNCHANGED <<last_seen_file, service, since_id, data, files_before, fetched>>

Run ==
    \/ \E bearer \in {<<>>, <<"token">>}, accounts \in {<<>>, <<"alice">>} : GetConfig(bearer, accounts)
    \/ ReadLastSeenId
    \/ SearchOk
    \/ \E code \in {429, 401, 503} : SearchHTTPError(code)
    \/ SearchUncaught
    \/ CheckTweets
    \/ WriteLastSeenId
    \/ UpdateFeed

Init ==
    /\ last_seen_file = NoFile
    /\ feed_file = NoFile
    /\ posted = 0
    /\ deleted = {}
    /\ pc = "not_started"
    /\ exit_code = -1
    /\ since_id = None
    /\ data = EmptyDict
    /\ new_items = <<>>
    /\ existing = <<>>
    /\ existing_items = <<>>
    /\ all_items = <<>>
    /\ io_log = <<>>
    /\ files_before = <<NoFile, NoFile>>
    /\ fetched = {}

Next ==
    \/ Post
    \/ \E n \in 1..MaxId : Delete(n)
    \/ Run

Spec == Init /\ [][Next]_vars

(***************************************************************************)
(* Runs with a cursor that gets lost between two runs: last_seen_id.txt is *)
(* removed, or left empty by a write that did not complete (the two states *)
(* read_last_seen_id answers with None).                                   *)
(***************************************************************************)
LoseCursor(left) ==
    /\ pc \in Ended
    /\ last_seen_file.exists
    /\ last_seen_file.text # <<>>
    /\ last_seen_file' = left
    /\ UNCHANGED <<feed_file, service, pc, exit_code, locals, io_log, files_before, fetched>>

NextLoss ==
    \/ Next
    \/ \E left \in {NoFile, File(<<>>)} : LoseCursor(left)

SpecLoss == Init /\ [][NextLoss]_vars

(***************************************************************************)
(* Runs of which some end between the two writes: after write_last_seen_id *)
(* (line 309) an exception leaves main before write_feed (line 328) has    *)
(* written the document: datetime.fromisoformat (line 196) on a date it    *)
(* cannot read, open (lines 241, 271) on a file it cannot open.  The       *)
(* interpreter ends with status 1.                                         *)
(***************************************************************************)
UpdateFeedRaises ==
    /\ pc = "update_feed"
    /\ io_log' = Append(io_log, "build_items_xml")
    /\ pc' = "exit_update_failed"
    /\ exit_code' = 1
    /\ UNCHANGED <<files, service, locals, files_before, fetched>>

NextAbort ==
    \/ Next
    \/ UpdateFeedRaises

SpecAbort == Init /\ [][NextAbort]_vars

(***************************************************************************)
(* The merge on every pair of inputs: main from line 302 on, with any      *)
(* fetch result (any order of distinct tweets, none to max_results of      *)
(* them, the author under either display name) and any stored document    *)
(* that write_feed can have written (any order of distinct tweets, up to   *)
(* the cap).                                                               *)
(***************************************************************************)
MergeIds == 1..(MAX_ITEMS + 1)

\* the sequences of distinct elements of S of length lo..hi
Distinct(S, lo, hi) ==
    {q \in UNION {[1..n -> S] : n \in lo..hi} : \A i, j \in DOMAIN q : i # j => q[i] # q[j]}

ResponseAs(ids, name) ==
    IF ids = <<>> THEN Response(ids)
    ELSE [Response(ids) EXCEPT !.includes.users = << [id |-> "u1", username |-> <<"alice">>, name |-> name] >>]

FetchResults ==
    {ResponseAs(ids, name) : ids \in Distinct(MergeIds, 0, max_results), name \in {<<"Alice">>, <<"Alicia">>}}

StoredFeeds ==
    {NoFile} \cup {write_feed(build_items_xml(Response(ids)), NOW) : ids \in Distinct(MergeIds, 0, MAX_ITEMS)}

InitMerge ==
    /\ last_seen_file = NoFile
    /\ feed_file \in StoredFeeds
    /\ posted = 0
    /\ deleted = {}
    /\ pc = "check_tweets"
    /\ exit_code = -1
    /\ since_id = None
    /\ data \in FetchResults
    /\ new_items = <<>>
    /\ existing = <<>>
    /\ existing_items = <<>>
    /\ all_items = <<>>
    /\ io_log = <<"read_last_seen_id", "search_recent_tweets">>
    /\ files_before = <<last_seen_file, feed_file>>
    /\ fetched = FetchedIds(data)

NextMerge ==
    \/ CheckTweets
    \/ WriteLastSeenId
    \/ UpdateFeed

SpecMerge == InitMerge /\ [][NextMerge]_vars

(***************************************************************************)
(* The renderer on every text: main from line 302 on, with a fetch result  *)
(* of one tweet whose text is any sequence of up to MaxPieces pieces, each *)
(* a character that escape_xml replaces or a part of an entity, and with   *)
(* no document stored.                                                     *)
(***************************************************************************)
Pieces ==
    { <<"&">>, <<"<">>, <<">">>, <<"\"">>,
      <<"&", "l", "t", ";">>, <<"&", "a", "m", "p", ";">>,
      <<"a", "m", "p", ";">>, <<"l", "t", ";">> }

RECURSIVE Concat(_)
Concat(q) == IF q = <<>> THEN <<>> ELSE Head(q) \o Concat(Tail(q))

Texts == {Concat(q) : q \in UNION {[1..n -> Pieces] : n \in 0..MaxPieces}}

ResponseWithText(text) == [Response(<<1>>) EXCEPT !.data[1].text = text]

InitEscape ==
    /\ last_seen_file = NoFile
    /\ feed_file = NoFile
    /\ posted = 0
    /\ deleted = {}
    /\ pc = "check_tweets"
    /\ exit_code = -1
    /\ since_id = None
    /\ data \in {ResponseWithText(text) : text \in Texts}
    /\ new_items = <<>>
    /\ existing = <<>>
    /\ existing_items = <<>>
    /\ all_items = <<>>
    /\ io_log = <<"read_last_seen_id", "search_recent_tweets">>
    /\ files_before = <<last_seen_file, feed_file>>
    /\ fetched = FetchedIds(data)

SpecEscape == InitEscape /\ [][NextMerge]_vars

(***************************************************************************)
(* The merge with a stored document that this writer did not write as it   *)
(* stands: main from line 302 on, with any fetch result of the search      *)
(* (newest first) and any stored document of up to MAX_ITEMS entries of    *)
(* which each is whole, has lost its guid line, or has its guid element    *)
(* broken over two lines (the regular expression of line 247 crosses no    *)
(* line end).                                                              *)
(***************************************************************************)
\* the lists, largest first, of lo..hi numbers of S
DescendingLists(S, lo, hi) ==
    {Descending(T) : T \in {U \in SUBSET S : Cardinality(U) >= lo /\ Cardinality(U) <= hi}}

\* an item of build_items_xml without the line of its guid
WithoutGuid(item_xml) ==
    LET g == Min({k \in 1..Len(item_xml) : item_xml[k] = GUID_OPEN})
    IN  SubSeq(item_xml, 1, g - 3) \o SubSeq(item_xml, g + 3, Len(item_xml))

\* an item of build_items_xml with a line end after the opening of its guid
SplitGuid(item_xml) ==
    LET g == Min({k \in 1..Len(item_xml) : item_xml[k] = GUID_OPEN})
    IN  SubSeq(item_xml, 1, g) \o <<"\n">> \o SubSeq(item_xml, g + 1, Len(item_xml))

Forms == {"whole", "without_guid", "split_guid"}

StoredItem(n, form) ==
    LET item_xml == build_items_xml(Response(<<n>>))[1]
    IN  IF form = "without_guid" THEN WithoutGuid(item_xml)
        ELSE IF form = "split_guid" THEN SplitGuid(item_xml)
        ELSE item_xml

MalformedFeeds ==
    UNION {{write_feed([i \in 1..Len(ids) |-> StoredItem(ids[i], forms[i])], NOW) :
                forms \in [1..Len(ids) -> Forms]} :
            ids \in DescendingLists(MergeIds, 1, MAX_ITEMS)}

InitMalformed ==
    /\ last_seen_file = NoFile
    /\ feed_file \in MalformedFeeds
    /\ posted = 0
    /\ deleted = {}
    /\ pc = "check_tweets"
    /\ exit_code = -1
    /\ since_id = None
    /\ data \in {Response(ids) : ids \in DescendingLists(MergeIds, 0, max_results)}
    /\ new_items = <<>>
    /\ existing = <<>>
    /\ existing_items = <<>>
    /\ all_items = <<>>
    /\ io_log = <<"read_last_seen_id", "search_recent_tweets">>
    /\ files_before = <<last_seen_file, feed_file>>
    /\ fetched = FetchedIds(data)

SpecMalformed == InitMalformed /\ [][NextMerge]_vars

(***************************************************************************)
(* The renderer on every shape of fetch result: main from line 302 on with *)
(* no document stored.  The author of the tweets is in the directory of    *)
(* users under one of several display names, or another user is, or there  *)
(* is no directory; the tweets have no attachment or two media keys, of    *)
(* which the directory of media knows one (with a url, with a preview      *)
(* image only, with neither) or none; they refer to no tweet or quote one  *)
(* that the directory of tweets holds or does not hold.  A display name is *)
(* free text: it may hold the characters of "<guid>", of "    </item>".    *)
(***************************************************************************)
Names == { <<"Alice">>, <<"A", "&", "B">>, <<GUID_OPEN, "9", GUID_CLOSE>>, <<"x", ITEM_CLOSE>> }

UserCases == {<<"none">>, <<"other">>} \cup {<<"author", name>> : name \in Names}

UsersIncluded(case) ==
    IF case[1] = "none" THEN <<>>
    ELSE IF case[1] = "other" THEN [users |-> << [id |-> "u2", username |-> <<"bob">>, name |-> <<"Bob">>] >>]
    ELSE [users |-> << [id |-> "u1", username |-> <<"alice">>, name |-> case[2]] >>]

BodyTexts == { <<"hello">>, <<"<", "guid", ">", "9", "<", "/guid", ">", "\n", "&", "b">> }

MediaCases == {"none", "url", "preview", "neither"}

MediaIncluded(case) ==
    IF case = "none" THEN <<>>
    ELSE IF case = "url"
    THEN [media |-> << [media_key |-> "m1", type |-> "photo", url |-> <<"https://img/1?a=1", "&", "b=2">>] >>]
    ELSE IF case = "preview"
    THEN [media |-> << [media_key |-> "m1", type |-> "video", preview_image_url |-> <<"https://img/p1">>] >>]
    ELSE [media |-> << [media_key |-> "m1", type |-> "photo"] >>]

TweetsIncluded(held) ==
    IF held THEN [tweets |-> << [id |-> <<"r1">>, author_id |-> "u9", text |-> <<"quoted", "<", "b">>] >>]
    ELSE <<>>

\* a tweet of the response, with the optional fields the case asks for
TweetAs(n, text, attached, refers) ==
    [TweetOf(n) EXCEPT !.text = text]
    @@ (IF attached THEN [attachments |-> [media_keys |-> <<"m1", "m9">>]] ELSE <<>>)
    @@ (IF refers THEN [referenced_tweets |-> << [type |-> "quoted", id |-> <<"r1">>] >>] ELSE <<>>)

ResponseOf(ids, text, attached, refers, includes) ==
    IF ids = <<>> THEN Response(ids)
    ELSE [data |-> [i \in 1..Len(ids) |-> TweetAs(ids[i], text, attached, refers)],
          meta |-> [result_count |-> Len(ids)]]
         @@ (IF includes = <<>> THEN <<>> ELSE [includes |-> includes])

RenderInputs ==
    {ResponseOf(ids, text, attached, refers,
                UsersIncluded(u) @@ MediaIncluded(m) @@ TweetsIncluded(held)) :
        ids \in DescendingLists(MergeIds, 0, max_results), text \in BodyTexts,
        attached \in BOOLEAN, refers \in BOOLEAN,
        u \in UserCases, m \in MediaCases, held \in BOOLEAN}

InitRender ==
    /\ last_seen_file = NoFile
    /\ feed_file = NoFile
    /\ posted = 0
    /\ deleted = {}
    /\ pc = "check_tweets"
    /\ exit_code = -1
    /\ since_id = None
    /\ data \in RenderInputs
    /\ new_items = <<>>
    /\ existing = <<>>
    /\ existing_items = <<>>
    /\ all_items = <<>>
    /\ io_log = <<"read_last_seen_id", "search_recent_tweets">>
    /\ files_before = <<last_seen_file, feed_file>>
    /\ fetched = FetchedIds(data)

SpecRender == InitRender /\ [][NextMerge]_vars

(***************************************************************************)
(* Properties                                                              *)
(***************************************************************************)
\* the entries of a feed document, as the reader finds them
Entries(file) == parse_existing_items(file)

EntryGuids(file) == [i \in 1..Len(Entries(file)) |-> Entries(file)[i].guid]

EntryXml(file) == [i \in 1..Len(Entries(file)) |-> Entries(file)[i].xml]

XmlOf(pairs) == [i \in 1..Len(pairs) |-> pairs[i].xml]

GuidsOf(items) == [i \in 1..Len(items) |-> GuidSearch(items[i])]

InSeq(x, q) == \E i \in 1..Len(q) : q[i] = x

Occurrences(x, q) == Cardinality({i \in 1..Len(q) : q[i] = x})

\* a is b with some elements left out
RECURSIVE IsSubseq(_, _)
IsSubseq(a, b) ==
    IF a = <<>> THEN TRUE
    ELSE IF b = <<>> THEN FALSE
    ELSE IF Head(a) = Head(b) THEN IsSubseq(Tail(a), Tail(b))
    ELSE IsSubseq(a, Tail(b))

Least(a, b) == IF a < b THEN a ELSE b

\* C1: whatever runs main has made, with the cursor lost at any time between
\* them, no two entries of the persisted feed document have the same guid.
C1_NoDuplicateGuid ==
    LET g == EntryGuids(feed_file)
    IN  \A i, j \in 1..Len(g) : i # j => g[i] # g[j]

\* a run has replaced a stored entry by its new copy and kept another
C1_Witness ==
    /\ pc = "return_updated"
    /\ Len(existing_items) < Len(existing)
    /\ Len(existing_items) >= 1
    /\ Len(EntryXml(feed_file)) >= 2

\* C2: the merge gives at most MAX_ITEMS entries, and what is persisted is the new
\* entries followed by the deduplicated previous entries, cut at MAX_ITEMS: what
\* is dropped is a suffix of the deduplicated previous entries, and no new entry
\* is dropped while the new entries alone do not exceed MAX_ITEMS. A full
\* document merged with n new entries gives MAX_ITEMS entries: the n new ones,
\* then the first MAX_ITEMS - n previous ones.
C2_CapKeepsNewDropsOldest ==
    pc = "return_updated" =>
        LET result == EntryXml(feed_file)
            n == Len(new_items)
            m == Len(existing_items)
        IN  /\ Len(result) <= MAX_ITEMS
            /\ Len(result) = Least(n + m, MAX_ITEMS)
            /\ n <= MAX_ITEMS => result = new_items \o SubSeq(existing_items, 1, Len(result) - n)
            /\ n > MAX_ITEMS => result = SubSeq(new_items, 1, MAX_ITEMS)
            /\ (Len(existing) = MAX_ITEMS /\ m = MAX_ITEMS /\ n <= MAX_ITEMS) =>
                    /\ Len(result) = MAX_ITEMS
                    /\ result = new_items \o SubSeq(XmlOf(existing), 1, MAX_ITEMS - n)

\* a full document has been merged with new entries it does not hold
C2_Witness ==
    /\ pc = "return_updated"
    /\ Len(existing) = MAX_ITEMS
    /\ Len(existing_items) = MAX_ITEMS
    /\ Len(new_items) >= 1
    /\ Len(EntryXml(feed_file)) = MAX_ITEMS

\* C3: when a new entry has the guid of a stored entry, the persisted result holds
\* that guid once, on the new copy, and the stored entries with other guids
\* follow the new entries as they were stored (up to the cap).
C3_NewCopyReplacesStored ==
    pc = "return_updated" =>
        LET result == Entries(feed_file)
            fresh == GuidsOf(new_items)
            others == SelectSeq(existing, LAMBDA p : ~InSeq(p.guid, fresh))
            n == Len(new_items)
        IN  /\ \A i \in 1..n :
                    (\E k \in 1..Len(existing) : existing[k].guid = fresh[i]) =>
                        /\ Occurrences(fresh[i], EntryGuids(feed_file)) = 1
                        /\ \A r \in 1..Len(result) :
                                result[r].guid = fresh[i] => r = i /\ result[r].xml = new_items[i]
            /\ SubSeq(XmlOf(result), n + 1, Len(result))
                    = SubSeq(XmlOf(others), 1, Least(Len(others), MAX_ITEMS - n))

\* stored [a, b, c] merged with a new rendering of b alone
C3_Witness ==
    /\ pc = "return_updated"
    /\ Len(existing) = 3
    /\ Len(new_items) = 1
    /\ existing[2].guid = GuidSearch(new_items[1])
    /\ existing[2].xml # new_items[1]
    /\ EntryXml(feed_file) = <<new_items[1], existing[1].xml, existing[3].xml>>

\* C4: in the persisted result the new entries come first, in the order of the
\* fetch result, and the retained previous entries follow in the order they were
\* stored in, whatever the identifiers are.
C4_NewThenPreviousInOrder ==
    pc = "return_updated" =>
        LET result == EntryXml(feed_file)
            n == Len(new_items)
        IN  /\ SubSeq(result, 1, Least(n, Len(result))) = SubSeq(new_items, 1, Least(n, Len(result)))
            /\ IsSubseq(SubSeq(result, n + 1, Len(result)), XmlOf(existing))
            /\ \A r \in (n + 1)..Len(result) : ~InSeq(GuidSearch(result[r]), GuidsOf(new_items))

\* two new entries lead a stored one with a greater identifier
C4_Witness ==
    /\ pc = "return_updated"
    /\ Len(new_items) = 2
    /\ Len(EntryXml(feed_file)) = 3
    /\ LET g == EntryGuids(feed_file)
       IN  /\ IdNum(g[1][1]) < IdNum(g[3][1])
           /\ IdNum(g[2][1]) < IdNum(g[3][1])
           /\ g[3] = existing[1].guid

\* C5: the merge of no new entries into a document of at most MAX_ITEMS entries
\* gives the entries of that document, unchanged and in their order; and a run
\* whose fetch returns no items leaves the feed document as it was.
C5_EmptyMergeIsIdentity ==
    /\ [](Len(Entries(feed_file)) <= MAX_ITEMS =>
            MergeItems(<<>>, FilterExisting(Entries(feed_file), NewGuids(<<>>))) = EntryXml(feed_file))
    /\ [][(pc = "check_tweets" /\ get(data, "data", <<>>) = <<>>) =>
            (pc' = "return_no_tweets" /\ feed_file' = feed_file)]_vars

\* a run has ended on an empty fetch result with a full document stored
C5_Witness ==
    /\ pc = "return_no_tweets"
    /\ Len(Entries(feed_file)) = MAX_ITEMS

Writes(log) == SelectSeq(log, LAMBDA c : c \in {"write_last_seen_id", "write_feed"})

\* the ends of a run that the error handling design names: a configuration
\* error, a rate limit, another fetch error, no items
NothingToDo == {"exit_config", "exit_rate_limited", "exit_api_error", "exit_uncaught", "return_no_tweets"}

HasCursor(file) == file.exists /\ file.text # <<>>

\* C6: a run that ends by a configuration error, a rate limit, another fetch
\* error or an empty fetch result has written neither file, and both files are as
\* they were when it started; a step writes a file only in a run whose fetch
\* succeeded and returned at least one item.
C6_NoWriteUnlessItemsFetched ==
    /\ [](pc \in NothingToDo => (Writes(io_log) = <<>> /\ files = files_before))
    /\ [][(files' # files \/ Len(Writes(io_log')) > Len(Writes(io_log))) =>
            /\ Len(Writes(io_log')) = Len(Writes(io_log)) + 1
            /\ InSeq("search_recent_tweets", io_log)
            /\ get(data, "data", <<>>) # <<>>
            /\ pc' \in {"update_feed", "return_updated"}]_vars

\* a run was rate limited with both files present
C6_Witness ==
    /\ pc = "exit_rate_limited"
    /\ HasCursor(last_seen_file)
    /\ Len(Entries(feed_file)) >= 2

\* C7: a run that writes the cursor writes the identifier of the newest item of
\* its fetch result, which is not smaller than the cursor it read at its start
\* nor than the cursor the file held: the persisted cursor never decreases.
C7_CursorNeverDecreases ==
    [][((pc = "write_last_seen_id" /\ pc' # pc) \/ last_seen_file' # last_seen_file) =>
        /\ pc = "write_last_seen_id"
        /\ HasCursor(last_seen_file')
        /\ last_seen_file'.text = data.data[1].id
        /\ \A k \in 1..Len(data.data) : IdNum(data.data[k].id) <= IdNum(last_seen_file'.text)
        /\ since_id # None => IdNum(since_id[1]) <= IdNum(last_seen_file'.text)
        /\ HasCursor(last_seen_file) => IdNum(last_seen_file.text) <= IdNum(last_seen_file'.text)]_vars

\* a run that started with a cursor has written a new one for two fetched items
C7_Witness ==
    /\ pc = "update_feed"
    /\ since_id # None
    /\ Len(data.data) = 2
    /\ IdNum(last_seen_file.text) > IdNum(since_id[1])

C9_CursorLossIsSafe ==
    /\ [](pc = "search_recent_tweets" => (since_id = None <=> ~HasCursor(last_seen_file)))
    /\ [][(pc = "update_feed" /\ pc' = "return_updated" /\ since_id = None /\ Entries(feed_file) # <<>>) =>
            LET stored == Entries(feed_file)
                fresh == GuidsOf(build_items_xml(data))
                kept == SelectSeq(stored, LAMBDA p : ~InSeq(p.guid, fresh))
                n == Len(data.data)
                result == Entries(feed_file')
            IN  /\ ~HasCursor(files_before[1])
                /\ \A i, j \in 1..Len(result) : i # j => result[i].guid # result[j].guid
                /\ SubSeq(result, n + 1, Len(result)) = SubSeq(kept, 1, Least(Len(kept), MAX_ITEMS - n))
                /\ HasCursor(last_seen_file')
                /\ last_seen_file'.text = data.data[1].id
                /\ \A k \in 1..n : IdNum(data.data[k].id) <= IdNum(last_seen_file'.text)]_vars

\* after the loss of the cursor a run has fetched one stored entry again and kept
\* another
C9_Witness ==
    /\ pc = "return_updated"
    /\ since_id = None
    /\ Len(existing) >= 2
    /\ Len(existing_items) >= 1
    /\ Len(existing_items) < Len(existing)
    /\ HasCursor(last_seen_file)

\* C10: the exit status is 0 after a run that updated the feed, after a run that
\* found no new items and after a rate limit; it is not 0 after a run that found
\* the credential or the account list missing and after any other fetch error.
C10_ExitStatus ==
    /\ pc \in {"return_updated", "return_no_tweets", "exit_rate_limited"} => exit_code = 0
    /\ pc \in {"exit_config", "exit_api_error", "exit_uncaught"} => exit_code > 0
    /\ pc \in Ended \ {"not_started"} => exit_code >= 0
    /\ pc \notin Ended => exit_code = -1

\* a run ended on a rate limit with exit status 0, after an earlier run had failed
C10_Witness ==
    /\ pc = "exit_rate_limited"
    /\ exit_code = 0
    /\ feed_file.exists

\* text.replace(old, new), old a string of one symbol or more
RECURSIVE replaceAll(_, _, _)
replaceAll(text, old, new) ==
    IF Len(text) < Len(old) THEN text
    ELSE IF SubSeq(text, 1, Len(old)) = old
         THEN new \o replaceAll(SubSeq(text, Len(old) + 1, Len(text)), old, new)
         ELSE <<Head(text)>> \o replaceAll(Tail(text), old, new)

\* the escaping reversed: the four entities mapped back, "&amp;" last
unescape_xml(text) ==
    replaceAll(replaceAll(replaceAll(replaceAll(text,
        <<"&", "l", "t", ";">>, <<"<">>),
        <<"&", "g", "t", ";">>, <<">">>),
        <<"&", "q", "u", "o", "t", ";">>, <<"\"">>),
        <<"&", "a", "m", "p", ";">>, <<"&">>)

\* the text of a tweet as its item shows it: what the description holds between
\* its first "<p>" and the "</p>" that follows
RenderedText(item_xml) ==
    LET b == Min({k \in 1..Len(item_xml) : item_xml[k] = "<p>"})
        e == Min({k \in (b + 1)..Len(item_xml) : item_xml[k] = "</p>"})
    IN  SubSeq(item_xml, b + 1, e - 1)

\* C11: for every text made of "<", ">", "&", the double quote and parts of
\* entities, the text that the renderer has put in the item, with the escaping
\* reversed ("&amp;" last), is the text of the tweet: escape_xml loses nothing,
\* also of a text that holds "&lt;" or "&amp;" already.
C11_EscapeRoundTrip ==
    pc = "return_updated" =>
        \A i \in 1..Len(new_items) :
            /\ RenderedText(new_items[i]) = escape_xml(data.data[i].text)
            /\ unescape_xml(RenderedText(new_items[i])) = data.data[i].text

\* the item of a tweet whose text is "&lt;" followed by "<" and "&"
C11_Witness ==
    /\ pc = "return_updated"
    /\ data.data[1].text = <<"&", "l", "t", ";", "<", "&">>
    /\ RenderedText(new_items[1]) # data.data[1].text

\* the place of the first call of that name in the log of a run (0: none)
Position(call, log) ==
    IF InSeq(call, log) THEN Min({k \in 1..Len(log) : log[k] = call}) ELSE 0

\* C12: in a run that performs both writes the steps come in the order fetch,
\* render, read of the stored entries, merge, document write, cursor write: the
\* cursor file is as the run found it for as long as the document is not
\* written.
C12_DocumentWrittenBeforeCursor ==
    /\ pc = "update_feed" => last_seen_file = files_before[1]
    /\ pc = "return_updated" =>
            /\ Position("search_recent_tweets", io_log) < Position("build_items_xml", io_log)
            /\ Position("build_items_xml", io_log) < Position("parse_existing_items", io_log)
            /\ Position("parse_existing_items", io_log) < Position("write_feed", io_log)
            /\ Position("write_feed", io_log) < Position("write_last_seen_id", io_log)

\* the tweet of that number is an entry of the feed document
InFeed(n) == InSeq(Some(IdOf(n)), EntryGuids(feed_file))

\* the cap has pushed the tweet of that number out: the document is full of
\* newer entries
PushedOut(n) ==
    /\ Len(Entries(feed_file)) = MAX_ITEMS
    /\ \A i \in 1..MAX_ITEMS : IdNum(EntryGuids(feed_file)[i][1]) > n

\* a search with the cursor of the file can still return the tweet of that number
StillAhead(n) == ~HasCursor(last_seen_file) \/ n > IdNum(last_seen_file.text)

\* C13: after a run that ended between the two writes, no fetched item is lost:
\* when a later run has completed, every item that a search has returned is in
\* the feed document (up to the cap) or is newer than the cursor, so that a
\* later search with that cursor can return it.
C13_NoFetchedItemLost ==
    pc \in {"return_updated", "return_no_tweets"} =>
        \A n \in fetched : InFeed(n) \/ PushedOut(n) \/ StillAhead(n)

Whole(item_xml) == \E n \in MergeIds : item_xml = StoredItem(n, "whole")

Unparsed(pairs) == SelectSeq(pairs, LAMBDA p : p.guid = None)

\* C15: a stored entry whose guid cannot be located is read with guid None; the
\* deduplication keeps it whatever the new guids are, at its place among the
\* retained previous entries; it takes a place under the cap as any other
\* entry; and it is written back with its markup as it was.
C15_UnparsedEntryPassesThrough ==
    pc = "return_updated" =>
        LET n == Len(new_items)
            result == EntryXml(feed_file)
            kept == SelectSeq(existing,
                        LAMBDA p : p.guid = None \/ ~InSeq(p.guid, GuidsOf(new_items)))
        IN  /\ \A k \in 1..Len(existing) : existing[k].guid = None <=> ~Whole(existing[k].xml)
            /\ XmlOf(existing) = EntryXml(files_before[2])
            /\ SelectSeq(existing_items, LAMBDA x : GuidSearch(x) = None) = XmlOf(Unparsed(existing))
            /\ existing_items = XmlOf(kept)
            /\ Len(result) = Least(n + Len(existing_items), MAX_ITEMS)
            /\ SubSeq(result, n + 1, Len(result)) = SubSeq(existing_items, 1, Len(result) - n)

\* a full document whose first entry has no guid was merged with one new entry:
\* the entry without guid follows the new one and the last stored entry is out
C15_Witness ==
    /\ pc = "return_updated"
    /\ Len(existing) = MAX_ITEMS
    /\ existing[1].guid = None
    /\ existing[MAX_ITEMS].guid # None
    /\ Len(existing_items) = MAX_ITEMS
    /\ Len(new_items) = 1
    /\ EntryXml(feed_file) = <<new_items[1]>> \o SubSeq(XmlOf(existing), 1, MAX_ITEMS - 1)

\* C16: for every list of entries that build_items_xml produces, whatever the
\* display name of the author is, the document that write_feed writes is read
\* back by parse_existing_items as the same number of entries, in the same
\* order, each with its markup unchanged and with the id of its tweet as guid.
C16_WriteReadRoundTrip ==
    pc = "return_updated" =>
        LET read == Entries(feed_file)
        IN  /\ feed_file = write_feed(new_items, NOW)
            /\ Len(read) = Len(new_items)
            /\ \A i \in 1..Len(new_items) :
                    /\ i <= Len(read)
                    /\ read[i].xml = new_items[i]
                    /\ read[i].guid = Some(data.data[i].id)

Count(sym, q) == Cardinality({k \in 1..Len(q) : q[k] = sym})

\* how many lines of the item are that line
LineCount(item_xml, line) ==
    Cardinality({k \in 1..(Len(item_xml) - Len(line) - 1) :
        SubSeq(item_xml, k, k + Len(line) + 1) = <<"\n">> \o line \o <<"\n">>})

\* the directories of the fetch result, as lists
AuthorKnown(tweet) ==
    \E i \in 1..Len(Included(data, "users")) :
        Included(data, "users")[i].id = get(tweet, "author_id", "")

MediaKnown(key) ==
    \E i \in 1..Len(Included(data, "media")) :
        LET m == Included(data, "media")[i]
        IN  /\ m.media_key = key
            /\ \/ "url" \in DOMAIN m /\ m.url # <<>>
               \/ "preview_image_url" \in DOMAIN m /\ m.preview_image_url # <<>>

ReferenceHeld(ref) ==
    \E i \in 1..Len(Included(data, "tweets")) : Included(data, "tweets")[i].id = ref.id

\* C17: build_items_xml gives one entry for each item of the fetch result, in the
\* order of the result, with the id of the item in its guid element, whatever
\* the directories hold: the item of an unknown author is there under the
\* handle "unknown", a media key that the directory lacks (or knows without a
\* url) and a reference that the directory does not hold add nothing to it.
C17_OneEntryPerItem ==
    pc = "return_updated" =>
        /\ Len(new_items) = Len(data.data)
        /\ \A i \in 1..Len(data.data) :
                LET tweet == data.data[i]
                    item_xml == new_items[i]
                    keys == get(get(tweet, "attachments", EmptyDict), "media_keys", <<>>)
                    refs == get(tweet, "referenced_tweets", <<>>)
                IN  /\ i <= Len(new_items)
                    /\ Head(item_xml) = ITEM_OPEN
                    /\ item_xml[Len(item_xml)] = ITEM_CLOSE
                    /\ LineCount(item_xml, <<"      ", GUID_OPEN>> \o tweet.id \o <<GUID_CLOSE>>) = 1
                    /\ ~AuthorKnown(tweet) =>
                            /\ LineCount(item_xml, <<"      <title><![CDATA[", "unknown", " (@", "unknown", ")]]></title>">>) = 1
                            /\ LineCount(item_xml, <<"      <link>", "https://x.com/", "unknown", "/status/">>
                                                        \o tweet.id \o <<"</link>">>) = 1
                    /\ AuthorKnown(tweet) =>
                            \E u \in 1..Len(Included(data, "users")) :
                                /\ Included(data, "users")[u].id = tweet.author_id
                                /\ LineCount(item_xml, <<"      <link>", "https://x.com/">>
                                        \o Included(data, "users")[u].username
                                        \o <<"/status/">> \o tweet.id \o <<"</link>">>) = 1
                    /\ Count("      <media:content medium=\"", item_xml)
                            = Cardinality({k \in 1..Len(keys) : MediaKnown(keys[k])})
                    /\ Count("</p></blockquote>", item_xml)
                            = 2 * Cardinality({k \in 1..Len(refs) : ReferenceHeld(refs[k])})

\* two items of an author that the directory of users lacks, with media keys
\* and a reference that no directory resolves, have given two entries
C17_Witness ==
    /\ pc = "return_updated"
    /\ Len(data.data) = 2
    /\ Len(new_items) = 2
    /\ Included(data, "users") # <<>>
    /\ ~AuthorKnown(data.data[1])
    /\ "attachments" \in DOMAIN data.data[1]
    /\ Included(data, "media") # <<>>
    /\ "referenced_tweets" \in DOMAIN data.data[1]
    /\ Included(data, "tweets") = <<>>
    /\ Count("      <media:content medium=\"", new_items[1]) = 0
    /\ Count("</p></blockquote>", new_items[1]) = 0
    /\ Count("unknown", new_items[1]) > 0

====
